---- MODULE Spec2Model ----
(***************************************************************************)
(* State-machine model of steps/geom/tetmesh.py: the TetMesh container     *)
(* (tet-tet and tet-tri neighbour resolution, triangle registration) and   *)
(* the Comp / Patch annotation objects.                                    *)
(*                                                                         *)
(* Reading conventions.  The source is an unfinished draft: several        *)
(* expressions have no value on any input.  They are read as the evident   *)
(* expression:                                                             *)
(*   - names that do not resolve: tmp for tmp1, .range for .shape,         *)
(*     ntris_idx_stop for xrstop, __find_tet_tri_neighbours for            *)
(*     __set_tet_tri_neighbours, _tet_annotation for _tet_comps,           *)
(*     _tri_annotation for _tri_patches, tet_indices for _tet_indices,     *)
(*     _tris_indices for _tri_indices, _tri_normals for _tri_norms;        *)
(*   - "for ii in n" for "for ii in xrange(n)", "return utris.sort()" for  *)
(*     the sorted list, "if a == b" on two rows for "all columns equal",   *)
(*     self._tets[unr, (0,1,2)] for the columns (0,1,2) of the rows unr,   *)
(*     a column index 3 into a 3-column face array for its last column,    *)
(*     list[indices] = self for the assignment to each index;              *)
(*   - super(self).__init__ and the keyword type=int, which are skipped.   *)
(* Everything that does evaluate is modelled as written: which array an    *)
(* index is applied to, which values are compared, the order of the        *)
(* statements, what is appended.  assert runs (the interpreter is not      *)
(* started with -O).                                                       *)
(*                                                                         *)
(* Arrays indexed by tet / triangle index are functions on 0..n-1 (the     *)
(* source's indices); a row of corner indices is a tuple read with Col.    *)
(* Python objects are encoded as integers: None is NoneVal, Comp number i  *)
(* is CompRef(i), Patch number j is PatchRef(j), a list of n None values   *)
(* is NoneList(n).  -1 is the source's own "no neighbour" value.           *)
(*                                                                         *)
(* The geometry primitives (steps.geom.tetrahedron, steps.geom.triangle)   *)
(* are not part of the source.  A volume and an area are numbers >= 0      *)
(* fixed by the corner points (TetVol, TriArea); the sign of the dot       *)
(* product of the orientation fix-up is an input of Patch.__init__.        *)
(***************************************************************************)
EXTENDS Integers, Sequences, FiniteSets, TLC

VARIABLES pc, tets, tet_tet, tt_writes, tet_tri, tet_comps,
          tris, tri_tet, tri_patches, comps, patches, last

vars == <<pc, tets, tet_tet, tt_writes, tet_tri, tet_comps,
          tris, tri_tet, tri_patches, comps, patches, last>>

\* ------------------------------------------------------------------ bounds
\* number of corner points of the mesh (pnts.shape[0])
NPnts == 5
\* largest number of tetrahedrons given to the constructor
MaxTets == 3
\* largest number of rows of one addTris batch
MaxBatch == 3
\* largest number of rows of one addTris batch on a mesh that is annotated
MaxSmallBatch == 1
\* addTris is not called with a batch that could take the triangle buffer
\* beyond this many rows
MaxTris == 3
\* the same, on a mesh that is annotated
MaxSmallTris == 1
\* largest number of different indices given to one Comp or Patch
MaxIdx == 2
\* largest number of Comp objects created on one mesh
MaxComps == 2
\* largest number of Patch objects created on one mesh
MaxPatches == 1

\* ------------------------------------------------------- encoding of values
NoneVal == 0 - 100
CompRef(i) == 100 + i
PatchRef(j) == 200 + j
NoneList(n) == 1000 + n

Pnts == 0 .. (NPnts - 1)

Col(row, j) == row[j + 1]

\* the same function, with every entry computed once
Strict(f) == f @@ [x \in {} |-> 0]
Size(a) == Cardinality(DOMAIN a)
Arr0(s) == Strict([i \in 0 .. (Len(s) - 1) |-> s[i + 1]])
Concat0(a, b) ==
    Strict([i \in 0 .. (Size(a) + Size(b) - 1) |->
              IF i < Size(a) THEN a[i] ELSE b[i - Size(a)]])

Min2(a, b) == IF a <= b THEN a ELSE b
Max2(a, b) == IF a >= b THEN a ELSE b

\* ndarray.sort() on one row of three indices
SortRow(r) ==
    LET lo == Min2(r[1], Min2(r[2], r[3]))
        hi == Max2(r[1], Max2(r[2], r[3]))
    IN  <<lo, r[1] + r[2] + r[3] - lo - hi, hi>>

\* order of numpy.lexsort((a[:,2], a[:,1], a[:,0])): column 0 first
KeyLess(p, q) ==
    \/ p[1] < q[1]
    \/ p[1] = q[1] /\ p[2] < q[2]
    \/ p[1] = q[1] /\ p[2] = q[2] /\ p[3] < q[3]

\* numpy.lexsort is stable: the permutation that sorts the keys, equal keys
\* kept in their order of arrival
LexSortPerm(keys) ==
    LET D == DOMAIN keys
        rank == Strict([p \in D |->
                   Cardinality({q \in D : \/ KeyLess(keys[q], keys[p])
                                          \/ keys[q] = keys[p] /\ q < p})])
    IN  Strict([i \in D |-> CHOOSE p \in D : rank[p] = i])

\* the corner columns of the four faces, in slot order
FaceCols == <<<<0, 1, 2>>, <<0, 1, 3>>, <<0, 2, 3>>, <<1, 2, 3>>>>

\* the sorted corner indices of face k of one tetrahedron row
FaceKey(tet, k) ==
    LET c == FaceCols[k + 1]
    IN  SortRow(<<Col(tet, c[1]), Col(tet, c[2]), Col(tet, c[3])>>)

\* ------------------------------------------- tet-tet neighbour resolution
\* tn before sorting: r_[t012, t013, t023, t123], each block in tet order,
\* columns 0..2 the sorted face, column 3 the tet, column 4 the face slot
TnRaw(ts) ==
    LET T == Size(ts)
    IN  Strict([p \in 0 .. (4 * T - 1) |->
            [key |-> FaceKey(ts[p % T], p \div T), tet |-> p % T, slot |-> p \div T]])

TnSorted(ts) ==
    LET raw == TnRaw(ts)
        perm == LexSortPerm(Strict([p \in DOMAIN raw |-> raw[p].key]))
    IN  Strict([i \in DOMAIN raw |-> raw[perm[i]]])

\* one assignment self._tet_tet_neighbours[t, k] = v (and its count)
SetSlot(st, t, k, v) ==
    [tt |-> [st.tt EXCEPT ![t][k] = v], cnt |-> [st.cnt EXCEPT ![t][k] = @ + 1]]

BoundaryAssign_Skip(st, r) == st

\* the branch for a boundary triangle
BoundaryAssign(st, r) == SetSlot(st, r.tet, r.slot, 0 - 1)

SharedAssign_OneWay(st, r1, r2) == SetSlot(st, r1.tet, r1.slot, r2.tet)

\* the branch for a shared triangle: both tets get the other one
SharedAssign(st, r1, r2) ==
    SetSlot(SetSlot(st, r1.tet, r1.slot, r2.tet), r2.tet, r2.slot, r1.tet)

\* the while loop over the sorted face records (ix2 is always ix1 + 1)
RECURSIVE Walk(_, _, _)
Walk(tn, ix1, st) ==
    LET nx == Size(tn)
    IN  IF ~(ix1 < nx) THEN st
        ELSE IF ix1 = nx - 1 THEN BoundaryAssign(st, tn[ix1])
        ELSE IF tn[ix1].key = tn[ix1 + 1].key
             THEN Walk(tn, ix1 + 2, SharedAssign(st, tn[ix1], tn[ix1 + 1]))
             ELSE Walk(tn, ix1 + 1, BoundaryAssign(st, tn[ix1]))

\* __set_tet_tet_neighbours on a table that numpy.empty left holding g
SetTetTetNeighbours(ts, g) ==
    LET T == Size(ts)
        st0 == [tt |-> Strict([t \in 0 .. (T - 1) |-> Strict([k \in 0 .. 3 |-> g])]),
                cnt |-> Strict([t \in 0 .. (T - 1) |-> Strict([k \in 0 .. 3 |-> 0])])]
    IN  Walk(TnSorted(ts), 0, st0)

\* ---------------------------------------------------- triangle registration
\* dict.setdefault(k, v)
SetDefault(d, k, v) == IF k \in DOMAIN d THEN d ELSE d @@ (k :> v)

\* d[k] = v
Put(d, k, v) == Strict([x \in (DOMAIN d) \cup {k} |-> IF x = k THEN v ELSE d[x]])

\* dict.get(k, -1)
Get(d, k) == IF k \in DOMAIN d THEN d[k] ELSE 0 - 1

EmptyDict == [x \in {} |-> 0]

\* a list holding the members of S in ascending order (list.sort())
AscList(S) ==
    Strict([i \in 0 .. (Cardinality(S) - 1) |->
              CHOOSE x \in S : Cardinality({y \in S : y < x}) = i])

\* a copy of the rows, each row sorted, then the rows in lexsort order
SortedRows(rows) ==
    LET keys == Strict([i \in DOMAIN rows |-> SortRow(rows[i])])
        perm == LexSortPerm(keys)
    IN  Strict([i \in DOMAIN rows |-> keys[perm[i]]])

\* the loop that marks the triangles of the mesh as already existing
RECURSIVE FillOld(_, _, _)
FillOld(d, otris, ii) ==
    IF ii >= Size(otris) THEN d
    ELSE FillOld(SetDefault(d, otris[ii], 0 - 1), otris, ii + 1)

\* the loop over the sorted copy of the new triangles: ii is a row of ntris
RECURSIVE FillNew(_, _, _)
FillNew(d, ntris, ii) ==
    IF ii >= Size(ntris) THEN d
    ELSE FillNew(SetDefault(d, ntris[ii], ii), ntris, ii + 1)

\* __find_unique_tris(tris, incl_mesh = True): the list of indices returned
FindUniqueTris(oldTris, batch) ==
    LET etris == FillNew(FillOld(EmptyDict, SortedRows(oldTris), 0),
                         SortedRows(batch), 0)
    IN  AscList({etris[k] : k \in {x \in DOMAIN etris : etris[x] >= 0}})

\* tris[idx, :]: the rows of the caller's array at the indices returned
TakeRows(batch, idx) == Strict([i \in DOMAIN idx |-> batch[idx[i]]])

\* ------------------------------------------- tet-tri neighbour resolution
\* the dictionary of the sorted new triangles and their indices
RECURSIVE TriDict(_, _, _, _)
TriDict(d, allTris, tri_idcs, ii) ==
    IF ii >= Size(tri_idcs) THEN d
    ELSE TriDict(Put(d, SortRow(allTris[tri_idcs[ii]]), tri_idcs[ii]),
                 allTris, tri_idcs, ii + 1)

\* unrNNN: the tets whose triangle slot k is still -1, ascending
Unresolved(tt, k) == AscList({x \in DOMAIN tt : tt[x][k] = 0 - 1})

LinkTriToTet_Overwrite(st, tridx, teidx, k) ==
    IF st.rt[tridx][0] = 0 - 1
    THEN [st EXCEPT !.rt[tridx][0] = teidx, !.tt[teidx][k] = tridx]
    ELSE [st EXCEPT !.rt[tridx][1] = teidx, !.tt[teidx][k] = tridx]

\* a hit: the triangle's first free slot gets the tet, then the tet's slot
\* k gets the triangle; both slots taken is assert False
LinkTriToTet(st, tridx, teidx, k) ==
    IF st.rt[tridx][0] = 0 - 1
    THEN [st EXCEPT !.rt[tridx][0] = teidx, !.tt[teidx][k] = tridx]
    ELSE IF st.rt[tridx][1] = 0 - 1
    THEN [st EXCEPT !.rt[tridx][1] = teidx, !.tt[teidx][k] = tridx]
    ELSE [st EXCEPT !.err = "AssertionError"]

\* the loop over one face slot; triNNN holds one sorted face per member of
\* unr, and is read at row teidx
RECURSIVE FaceLoop(_, _, _, _, _, _)
FaceLoop(ts, dict, k, unr, ii, st) ==
    IF ii >= Size(unr) THEN st
    ELSE LET teidx == unr[ii]
         IN  IF teidx >= Size(unr) THEN [st EXCEPT !.err = "IndexError"]
             ELSE LET tridx == Get(dict, FaceKey(ts[unr[teidx]], k))
                  IN  IF tridx = 0 - 1
                      THEN FaceLoop(ts, dict, k, unr, ii + 1, st)
                      ELSE LET st2 == LinkTriToTet(st, tridx, teidx, k)
                           IN  IF st2.err # "ok" THEN st2
                               ELSE FaceLoop(ts, dict, k, unr, ii + 1, st2)

FacePass(ts, dict, k, st) ==
    IF st.err # "ok" THEN st
    ELSE FaceLoop(ts, dict, k, Unresolved(st.tt, k), 0, st)

\* __set_tet_tri_neighbours(tri_idcs): the four face passes in order
SetTetTriNeighbours(ts, allTris, tt, rt, tri_idcs) ==
    LET dict == TriDict(EmptyDict, allTris, tri_idcs, 0)
        st0 == [tt |-> tt, rt |-> rt, err |-> "ok"]
    IN  FacePass(ts, dict, 3,
          FacePass(ts, dict, 2,
            FacePass(ts, dict, 1,
              FacePass(ts, dict, 0, st0))))

\* addTris(tris) on the mesh m; err is the exception that left it, if any
AddTris(m, batch) ==
    LET utris == TakeRows(batch, FindUniqueTris(m.tris, batch))
        ntris == Size(utris)
        tris1 == Concat0(m.tris, utris)
        rt1 == Concat0(m.tri_tet,
                       [i \in 0 .. (ntris - 1) |-> Strict([s \in 0 .. 1 |-> 0 - 1])])
        xrstop == Size(tris1)
        xrstart == xrstop - ntris
        r == SetTetTriNeighbours(m.tets, tris1, m.tet_tri, rt1,
                                 [i \in 0 .. (ntris - 1) |-> xrstart + i])
    IN  IF ntris = 0 THEN m
        ELSE [tets |-> m.tets, tris |-> tris1, tet_tri |-> r.tt, tri_tet |-> r.rt,
              tri_patches |-> IF r.err = "ok"
                              THEN Concat0(m.tri_patches, [i \in 0 .. 0 |-> NoneList(ntris)])
                              ELSE m.tri_patches,
              err |-> r.err]

\* ------------------------------------------------------------------ inputs
\* a row of four corners in falling order, and one with a corner repeated
SmallTetRows == {<<0, 1, 2, 3>>, <<0, 1, 2, 4>>, <<3, 2, 1, 0>>, <<0, 1, 2, 2>>}

\* tetrahedron rows: the tetrahedra around the edge (0, 1), corners in
\* rising order, and the rows above
TetRows ==
    {r \in {0} \X {1} \X Pnts \X Pnts : r[2] < r[3] /\ r[3] < r[4]} \cup SmallTetRows

Meshes == UNION {{Arr0(s) : s \in [1 .. n -> TetRows]} : n \in 1 .. MaxTets}

\* the meshes the triangle and compartment operations are run on: one
\* tetrahedron, two sharing a face, two on the same four points, three on one
\* face, and one with a repeated corner
SmallMeshes ==
    {Arr0(s) : s \in {<< <<0, 1, 2, 3>> >>,
                      << <<0, 1, 2, 3>>, <<0, 1, 2, 4>> >>,
                      << <<0, 1, 2, 3>>, <<3, 2, 1, 0>> >>,
                      << <<0, 1, 2, 3>>, <<0, 1, 2, 4>>, <<3, 2, 1, 0>> >>,
                      << <<0, 1, 2, 2>> >>}}

TriRows == {<<0, 1, 2>>, <<2, 1, 0>>, <<0, 1, 3>>, <<1, 2, 3>>}

BatchesUpTo(len) == UNION {{Arr0(s) : s \in [1 .. n -> TriRows]} : n \in 0 .. len}

Batches == BatchesUpTo(MaxBatch)

SmallBatches == BatchesUpTo(MaxSmallBatch)

\* ------------------------------------------------------------------- state
Mesh == [tets |-> tets, tris |-> tris, tet_tri |-> tet_tri, tri_tet |-> tri_tet,
         tri_patches |-> tri_patches, err |-> "ok"]

Init ==
    /\ pc = "new"
    /\ tets = <<>>
    /\ tet_tet = <<>>
    /\ tt_writes = <<>>
    /\ tet_tri = <<>>
    /\ tet_comps = <<>>
    /\ tris = <<>>
    /\ tri_tet = <<>>
    /\ tri_patches = <<>>
    /\ comps = <<>>
    /\ patches = <<>>
    /\ last = [op |-> "none", res |-> "ok"]

\* TetMesh.__init__(pnts, tets, tris): hasTris is "tris != None", g is what
\* numpy.empty left in the tet-tet table
TetMesh_init(ts, hasTris, b, g) ==
    LET T == Size(ts)
        r == SetTetTetNeighbours(ts, g)
        m0 == [tets |-> ts, tris |-> <<>>,
               tet_tri |-> Strict([t \in 0 .. (T - 1) |-> Strict([k \in 0 .. 3 |-> 0 - 1])]),
               tri_tet |-> <<>>, tri_patches |-> <<>>, err |-> "ok"]
        m1 == IF hasTris THEN AddTris(m0, b) ELSE m0
    IN  /\ pc = "new"
        /\ pc' = IF m1.err = "ok" THEN "built" ELSE "failed"
        /\ tets' = ts
        /\ tet_tet' = r.tt
        /\ tt_writes' = r.cnt
        /\ tet_comps' = [t \in 0 .. (T - 1) |-> NoneVal]
        /\ tet_tri' = m1.tet_tri
        /\ tris' = m1.tris
        /\ tri_tet' = m1.tri_tet
        /\ tri_patches' = m1.tri_patches
        /\ last' = [op |-> "TetMesh", res |-> m1.err]
        /\ UNCHANGED <<comps, patches>>

\* TetMesh.addTris(tris)
addTris(b) ==
    LET m1 == AddTris(Mesh, b)
    IN  /\ pc = "built"
        /\ tris' = m1.tris
        /\ tet_tri' = m1.tet_tri
        /\ tri_tet' = m1.tri_tet
        /\ tri_patches' = m1.tri_patches
        /\ last' = [op |-> "addTris", batch |-> b, res |-> m1.err]
        /\ UNCHANGED <<pc, tets, tet_tet, tt_writes, tet_comps, comps, patches>>

\* sum of the entries of table f at the indices S
RECURSIVE SumOver(_, _)
SumOver(f, S) ==
    IF S = {} THEN 0
    ELSE LET x == CHOOSE y \in S : TRUE
         IN  f[x] + SumOver(f, S \ {x})

Abs(x) == IF x < 0 THEN 0 - x ELSE x

\* stet.vol of one tetrahedron row, in units of a sixth: corner p lies at
\* (p, p^2, p^3), so the volume is the product of the distances of the
\* corner indices, and 0 when a corner is repeated
TetVol(row) ==
    Abs((row[2] - row[1]) * (row[3] - row[1]) * (row[4] - row[1])
        * (row[3] - row[2]) * (row[4] - row[2]) * (row[4] - row[3]))

\* self._tet_vols
Tet_Vols == [t \in DOMAIN tets |-> TetVol(tets[t])]

Comp_Vol_First(tetset) == Tet_Vols[AscList(tetset)[0]]

\* self._vol = self.container._tet_vols[self._tet_indices].sum()
Comp_Vol(tetset) == SumOver(Tet_Vols, tetset)

Comp_Check_NoOwnerTest(tetset) ==
    IF tetset = {} THEN "ValueError"
    ELSE IF (\E x \in tetset : x < 0) \/ (\E x \in tetset : x >= Size(tets))
    THEN "Invalid tetrahedron index specified."
    ELSE "ok"

Comp_Check_FirstOnly(tetset) ==
    IF tetset = {} THEN "ValueError"
    ELSE IF (\E x \in tetset : x < 0) \/ (\E x \in tetset : x >= Size(tets))
    THEN "Invalid tetrahedron index specified."
    ELSE IF tet_comps[AscList(tetset)[0]] # NoneVal
    THEN "Cannot add tetrahedron to compartment."
    ELSE "ok"

\* the checks of Comp.__init__ before anything is changed; tetset is
\* set(tets), and min() of an empty set is a ValueError
Comp_Check(tetset) ==
    IF tetset = {} THEN "ValueError"
    ELSE IF (\E x \in tetset : x < 0) \/ (\E x \in tetset : x >= Size(tets))
    THEN "Invalid tetrahedron index specified."
    ELSE IF \E ii \in tetset : tet_comps[ii] # NoneVal
    THEN "Cannot add tetrahedron to compartment."
    ELSE "ok"

Comp_init_Incremental(tetset) ==
    LET res == Comp_Check(tetset)
        me == CompRef(Size(comps))
        bad == {x \in tetset \cap DOMAIN tet_comps : tet_comps[x] # NoneVal}
        done == IF res = "Cannot add tetrahedron to compartment."
                THEN {x \in tetset : \A y \in bad : x < y}
                ELSE IF res = "ok" THEN tetset ELSE {}
    IN  /\ pc = "built"
        /\ res # "ok" \/ Size(comps) < MaxComps
        /\ comps' = IF res = "ok"
                    THEN Concat0(comps, [i \in 0 .. 0 |-> [tets |-> tetset, vol |-> Comp_Vol(tetset)]])
                    ELSE comps
        /\ tet_comps' = [t \in DOMAIN tet_comps |->
                           IF t \in done THEN me ELSE tet_comps[t]]
        /\ last' = [op |-> "Comp", tets |-> tetset, res |-> res]
        /\ UNCHANGED <<pc, tets, tet_tet, tt_writes, tet_tri, tris, tri_tet,
                       tri_patches, patches>>

\* Comp.__init__(id, container, tets); the new Comp is number Size(comps)
Comp_init(tetset) ==
    LET res == Comp_Check(tetset)
        me == CompRef(Size(comps))
    IN  /\ pc = "built"
        /\ res # "ok" \/ Size(comps) < MaxComps
        /\ IF res = "ok"
           THEN /\ comps' = Concat0(comps, [i \in 0 .. 0 |-> [tets |-> tetset, vol |-> Comp_Vol(tetset)]])
                /\ tet_comps' = [t \in DOMAIN tet_comps |->
                                   IF t \in tetset THEN me ELSE tet_comps[t]]
           ELSE UNCHANGED <<comps, tet_comps>>
        /\ last' = [op |-> "Comp", tets |-> tetset, res |-> res]
        /\ UNCHANGED <<pc, tets, tet_tet, tt_writes, tet_tri, tris, tri_tet,
                       tri_patches, patches>>

\* the loop that checks whether the triangles belong to a patch already,
\* over list(triset) in ascending order
RECURSIVE Patch_OwnerLoop(_, _)
Patch_OwnerLoop(idx, n) ==
    IF n >= Size(idx) THEN "ok"
    ELSE IF idx[n] >= Size(tri_patches) THEN "IndexError"
    ELSE IF tri_patches[idx[n]] # NoneVal THEN "Cannot add triangle to patch."
    ELSE Patch_OwnerLoop(idx, n + 1)

\* the loop that compares the two neighbour slots of each triangle with
\* (icomp, ocomp) and builds fliplist
RECURSIVE Patch_FlipLoop(_, _, _, _, _)
Patch_FlipLoop(idx, n, icomp, ocomp, fliplist) ==
    IF n >= Size(idx) THEN [res |-> "ok", fliplist |-> fliplist]
    ELSE LET ii == idx[n]
             icmp == tri_tet[ii][0]
             ocmp == tri_tet[ii][1]
         IN  IF icmp = icomp /\ ocmp = ocomp
             THEN Patch_FlipLoop(idx, n + 1, icomp, ocomp, fliplist)
             ELSE IF icmp = ocomp /\ ocmp = icomp
             THEN Patch_FlipLoop(idx, n + 1, icomp, ocomp, fliplist \cup {ii})
             ELSE [res |-> "Triangle cannot belong to this patch.", fliplist |-> fliplist]

\* the checks of Patch.__init__ before anything is changed
Patch_Check(triset, icomp, ocomp) ==
    IF triset = {} THEN [res |-> "ValueError", fliplist |-> {}]
    ELSE IF (\E x \in triset : x < 0) \/ (\E x \in triset : x >= Size(tris))
    THEN [res |-> "Invalid triangle index specified.", fliplist |-> {}]
    ELSE LET own == Patch_OwnerLoop(AscList(triset), 0)
         IN  IF own # "ok" THEN [res |-> own, fliplist |-> {}]
             ELSE Patch_FlipLoop(AscList(triset), 0, icomp, ocomp, {})

\* stri.area of one triangle row: a number that the corner points fix and
\* their order does not, here the product of the distances of the corner
\* indices
TriArea(row) ==
    Abs((row[2] - row[1]) * (row[3] - row[1]) * (row[3] - row[2]))

\* self._tri_areas, one entry for each row of the triangle buffer tr
Tri_Areas(tr) == [i \in DOMAIN tr |-> TriArea(tr[i])]

\* self._area = self.container._tri_areas[self._tri_indices].sum()
Patch_Area(triset) == SumOver(Tri_Areas(tris), triset)

\* the annotation of the member triangles with the new Patch
Patch_Annotate(tp, triset, me) ==
    [i \in DOMAIN tp |-> IF i \in triset THEN me ELSE tp[i]]

\* the exchange of the two neighbour slots of the triangles of fliplist
Patch_Swap(rt, fliplist) ==
    [i \in DOMAIN rt |->
        IF i \in fliplist THEN [s \in 0 .. 1 |-> rt[i][1 - s]] ELSE rt[i]]

\* the orientation fix-up: fliplist2 holds the member triangles for which
\* (vecs1 * vecs2).sum(axis=1) < 0.0, here neg; columns 0 and 1 of their
\* rows are exchanged
Patch_Orient(tr, neg) ==
    [i \in DOMAIN tr |->
        IF i \in neg THEN <<tr[i][2], tr[i][1], tr[i][3]>> ELSE tr[i]]

Patch_init_Eager(triset, icomp, ocomp, neg) ==
    LET chk == Patch_Check(triset, icomp, ocomp)
        me == PatchRef(Size(patches))
        members == triset \cap DOMAIN tris
    IN  /\ pc = "built"
        /\ chk.res # "ok" \/ Size(patches) < MaxPatches
        /\ IF chk.res = "ok"
           THEN /\ patches' = Concat0(patches,
                      [i \in 0 .. 0 |-> [tris |-> triset, icomp |-> icomp, ocomp |-> ocomp,
                                         area |-> Patch_Area(triset)]])
                /\ tri_patches' = Patch_Annotate(tri_patches, triset, me)
                /\ tri_tet' = Patch_Swap(tri_tet, chk.fliplist)
                /\ tris' = Patch_Orient(tris, neg)
           ELSE /\ tri_tet' = Patch_Swap(tri_tet, members)
                /\ tris' = Patch_Orient(tris, members)
                /\ UNCHANGED <<patches, tri_patches>>
        /\ last' = [op |-> "Patch", res |-> chk.res]
        /\ UNCHANGED <<pc, tets, tet_tet, tt_writes, tet_tri, tet_comps, comps>>

\* Patch.__init__(id, container, tris, icomp, ocomp); neg holds the member
\* triangles for which (vecs1 * vecs2).sum(axis=1) < 0.0
Patch_init(triset, icomp, ocomp, neg) ==
    LET chk == Patch_Check(triset, icomp, ocomp)
        me == PatchRef(Size(patches))
    IN  /\ pc = "built"
        /\ chk.res # "ok" \/ Size(patches) < MaxPatches
        /\ IF chk.res = "ok"
           THEN /\ patches' = Concat0(patches,
                      [i \in 0 .. 0 |-> [tris |-> triset, icomp |-> icomp, ocomp |-> ocomp,
                                         area |-> Patch_Area(triset)]])
                /\ tri_patches' = Patch_Annotate(tri_patches, triset, me)
                /\ tri_tet' = Patch_Swap(tri_tet, chk.fliplist)
                /\ tris' = Patch_Orient(tris, neg)
           ELSE UNCHANGED <<patches, tri_patches, tri_tet, tris>>
        /\ last' = [op |-> "Patch", res |-> chk.res]
        /\ UNCHANGED <<pc, tets, tet_tet, tt_writes, tet_tri, tet_comps, comps>>

\* ---------------------------------------------------------- specifications
Construct ==
    /\ pc = "new"
    /\ \E ts \in SmallMeshes, hasTris \in BOOLEAN, b \in SmallBatches, g \in (0 - 1) .. 0 :
        TetMesh_init(ts, hasTris, b, g)

AddTriangles ==
    /\ pc = "built"
    /\ \E b \in SmallBatches :
        /\ Size(tris) + Size(b) <= MaxSmallTris
        /\ addTris(b)

\* the index sets a caller may give: in range, or one below or one above it
IndexSets(n) == {S \in SUBSET ((0 - 1) .. n) : Cardinality(S) <= MaxIdx}

CreateCompartment ==
    /\ pc = "built"
    /\ \E tetset \in IndexSets(Size(tets)) : Comp_init(tetset)

CreatePatch ==
    /\ pc = "built"
    /\ \E triset \in IndexSets(Size(tris)),
       icomp \in {CompRef(i) : i \in DOMAIN comps},
       ocomp \in {CompRef(i) : i \in DOMAIN comps} \cup {NoneVal} :
        \E neg \in (IF Patch_Check(triset, icomp, ocomp).res = "ok"
                     THEN SUBSET triset ELSE {{}}) :
            Patch_init(triset, icomp, ocomp, neg)

Next == Construct \/ AddTriangles \/ CreateCompartment \/ CreatePatch

Spec == Init /\ [][Next]_vars

\* the constructor alone, on every mesh of the bounds, without triangles
ConstructAny ==
    /\ pc = "new"
    /\ \E ts \in Meshes, g \in (0 - 1) .. 0 :
        TetMesh_init(ts, FALSE, <<>>, g)

NextCtor == ConstructAny

SpecCtor == Init /\ [][NextCtor]_vars

\* the constructor and addTris alone, with batches of several rows
ConstructTris ==
    /\ pc = "new"
    /\ \E ts \in SmallMeshes, hasTris \in BOOLEAN, b \in Batches, g \in (0 - 1) .. 0 :
        TetMesh_init(ts, hasTris, b, g)

AddTrianglesBatch ==
    /\ pc = "built"
    /\ \E b \in Batches :
        /\ Size(tris) + Size(b) <= MaxTris
        /\ addTris(b)

NextTris == ConstructTris \/ AddTrianglesBatch

SpecTris == Init /\ [][NextTris]_vars

\* ------------------------------------------------------------ vocabulary
TetIds == DOMAIN tets

TriIds == DOMAIN tris

Key(t, k) == FaceKey(tets[t], k)

\* the tets that have a face with this sorted key
TetsWithKey(key) == {t \in TetIds : \E k \in 0 .. 3 : Key(t, k) = key}

AllKeys == {Key(t, k) : t \in TetIds, k \in 0 .. 3}

\* each face key occurs in at most 2 tetrahedra
AtMostTwoTets == \A key \in AllKeys : Cardinality(TetsWithKey(key)) <= 2

\* every tet row names four different corner points
DistinctCorners ==
    \A t \in TetIds : Cardinality({tets[t][c] : c \in 1 .. 4}) = 4

\* a manifold input: tetrahedra with four different corners, each face in
\* at most two of them
Manifold == AtMostTwoTets /\ DistinctCorners

ConflictMsg == "Cannot add tetrahedron to compartment."

IsOwner(x) == x # NoneVal

\* ----------------------------------------------------------------- claims

\* C1: after construction of a mesh in which each face key occurs in at most
\* 2 tetrahedra, whenever slot k of tet A names tet B some slot of B names A.
C1_AdjacencySymmetric ==
    (pc = "built" /\ AtMostTwoTets) =>
        \A A \in TetIds, B \in TetIds, k \in 0 .. 3 :
            tet_tet[A][k] = B => \E j \in 0 .. 3 : tet_tet[B][j] = A

C1_Witness ==
    /\ pc = "built"
    /\ AtMostTwoTets
    /\ \E A \in TetIds, B \in TetIds, k \in 0 .. 3 : A # B /\ tet_tet[A][k] = B

\* C2: a mesh in which one face key occurs in 3 or more tetrahedra is never
\* constructed: the constructor ends in an error.
C2_NonManifoldRaises ==
    (/\ last.op = "TetMesh"
     /\ DistinctCorners
     /\ \E key \in AllKeys : Cardinality(TetsWithKey(key)) >= 3)
        => pc = "failed"

C5_ConflictAtomic ==
    [][(/\ pc = "built"
        /\ last'.op = "Comp"
        /\ \E t \in last'.tets \cap TetIds : IsOwner(tet_comps[t]))
       => /\ last'.res # "ok"
          /\ (last'.tets \subseteq TetIds => last'.res = ConflictMsg)
          /\ tet_comps' = tet_comps
          /\ comps' = comps]_vars

\* a refused batch that held an owned tet and a free tet with a lower index
C5_Witness ==
    /\ last.op = "Comp"
    /\ last.res = ConflictMsg
    /\ \E t \in last.tets, u \in last.tets :
           u < t /\ IsOwner(tet_comps[t]) /\ tet_comps[u] = NoneVal

OldKeys == {SortRow(tris[i]) : i \in TriIds}

\* the sorted keys of the rows of a batch
BatchKeys(b) == {SortRow(b[i]) : i \in DOMAIN b}

\* the rows of a batch that are the first of their key
FirstOfKey(b) ==
    {i \in DOMAIN b : \A j \in DOMAIN b : j < i => SortRow(b[j]) # SortRow(b[i])}

\* C7: on a mesh of tetrahedra with four different corners,
\* addTris with a batch of rows of different keys never changes or moves
\* a triangle of the mesh, appends nothing when every key of the batch is in
\* the mesh already, and appends exactly the keys of the batch that the mesh
\* did not have.
C7_IdempotentRegistration ==
    [][(/\ pc = "built"
        /\ DistinctCorners
        /\ last'.op = "addTris"
        /\ FirstOfKey(last'.batch) = DOMAIN last'.batch)
       => /\ \A i \in TriIds : i \in DOMAIN tris' /\ tris'[i] = tris[i]
          /\ BatchKeys(last'.batch) \subseteq OldKeys => Size(tris') = Size(tris)
          /\ {SortRow(tris'[i]) : i \in (DOMAIN tris') \ TriIds}
                 = BatchKeys(last'.batch) \ OldKeys]_vars

\* C8: on a mesh of tetrahedra with four different corners, of a batch none
\* of whose keys is in the mesh addTris appends for each key the first row
\* that has it, in the order of the batch.
C8_FirstOccurrenceInArrivalOrder ==
    [][(/\ pc = "built"
        /\ DistinctCorners
        /\ last'.op = "addTris"
        /\ BatchKeys(last'.batch) \cap OldKeys = {})
       => tris' = Concat0(tris, TakeRows(last'.batch, AscList(FirstOfKey(last'.batch))))]_vars

\* C9: when addTris returns on a manifold mesh, each appended triangle i is in slot k of tet t
\* exactly when its key is the key of that face, t is then in one of the two
\* slots of i, slot 0 is filled before slot 1, and a tet in a slot of i has
\* i in one of its face slots.
C9_LinksComplete ==
    [][(pc = "built" /\ Manifold /\ last'.op = "addTris" /\ last'.res = "ok")
       => \A i \in (DOMAIN tris') \ TriIds :
            /\ \A t \in TetIds, k \in 0 .. 3 :
                   /\ tet_tri'[t][k] = i <=> Key(t, k) = SortRow(tris'[i])
                   /\ tet_tri'[t][k] = i => t \in {tri_tet'[i][0], tri_tet'[i][1]}
            /\ tri_tet'[i][0] = 0 - 1 => tri_tet'[i][1] = 0 - 1
            /\ \A s \in 0 .. 1 :
                   tri_tet'[i][s] # 0 - 1
                       => \E k \in 0 .. 3 : tet_tri'[tri_tet'[i][s]][k] = i]_vars

\* C10: a triangle never is in more than 2 face slots, and each tet that
\* has it in a face slot is in one of its two slots; a call that leaves an
\* appended triangle with both slots filled and a further face of its key
\* unlinked has raised, and assert False is raised in no other case.
C10_AtMostTwoLinks ==
    [][LET links(i) == {x \in (DOMAIN tets') \X (0 .. 3) : tet_tri'[x[1]][x[2]] = i}
           full(i) == tri_tet'[i][0] # 0 - 1 /\ tri_tet'[i][1] # 0 - 1
           open(i) == \E t \in DOMAIN tets', k \in 0 .. 3 :
                          /\ FaceKey(tets'[t], k) = SortRow(tris'[i])
                          /\ tet_tri'[t][k] = 0 - 1
           new == (DOMAIN tris') \ TriIds
       IN  /\ \A i \in DOMAIN tris' :
                  /\ Cardinality(links(i)) <= 2
                  /\ \A x \in links(i) : x[1] \in {tri_tet'[i][0], tri_tet'[i][1]}
           /\ last'.op \in {"addTris", "TetMesh"}
                  => /\ \A i \in new : full(i) /\ open(i) => last'.res # "ok"
                     /\ last'.res = "AssertionError"
                            => \E i \in new : full(i) /\ open(i)]_vars

\* addTris has raised on a third face of a triangle whose slots are filled
C10_Witness ==
    /\ last.op = "addTris"
    /\ last.res = "AssertionError"
    /\ \E i \in TriIds :
           /\ tri_tet[i][0] # 0 - 1 /\ tri_tet[i][1] # 0 - 1
           /\ \E t \in TetIds, k \in 0 .. 3 :
                  Key(t, k) = SortRow(tris[i]) /\ tet_tri[t][k] = 0 - 1

\* ------------------------------------------------------ patches: vocabulary
CompRefs == {CompRef(i) : i \in DOMAIN comps}

\* the compartment that owns the tet of a neighbour slot, looked up in the
\* per-tet table; an empty slot maps to none
CompOfSlot(t) == IF t \in DOMAIN tet_comps THEN tet_comps[t] ELSE NoneVal

\* the class of triangle i for the pair (icomp, ocomp)
Classify(i, icomp, ocomp) ==
    LET a == CompOfSlot(tri_tet[i][0])
        b == CompOfSlot(tri_tet[i][1])
    IN  IF a = icomp /\ b = ocomp THEN "keep"
        ELSE IF a = ocomp /\ b = icomp THEN "swap"
        ELSE "conflict"

\* the non-empty sets of triangle indices in range
MemberSets == {S \in SUBSET TriIds : S # {} /\ Cardinality(S) <= MaxIdx}

\* C11: on a mesh of tetrahedra with four different corners, the
\* classification loop of Patch.__init__ accepts a set of member
\* triangles exactly when the compartments that own the slot-0 and slot-1
\* tets of each are (icomp, ocomp) or (ocomp, icomp), queues exactly those
\* in swapped order, and otherwise fails with the conflict error.
C11_ClassifiesByCompartment ==
    (pc = "built" /\ DistinctCorners) =>
        \A triset \in MemberSets, icomp \in CompRefs, ocomp \in CompRefs \cup {NoneVal} :
            LET r == Patch_FlipLoop(AscList(triset), 0, icomp, ocomp, {})
                bad == {i \in triset : Classify(i, icomp, ocomp) = "conflict"}
            IN  IF bad = {}
                THEN /\ r.res = "ok"
                     /\ r.fliplist = {i \in triset : Classify(i, icomp, ocomp) = "swap"}
                ELSE r.res = "Triangle cannot belong to this patch."

\* triangle i is a member of some Patch
PatchOwned(i) == \E j \in DOMAIN patches : i \in patches[j].tris

\* the calls of createPatch that are to succeed: members in range and not
\* owned, each with its two compartments equal to (icomp, ocomp) in one of
\* the two orders
AcceptedCalls ==
    {c \in MemberSets \X CompRefs \X (CompRefs \cup {NoneVal}) :
        \A i \in c[1] : ~ PatchOwned(i) /\ Classify(i, c[2], c[3]) # "conflict"}

\* C12: on a mesh of tetrahedra with four different corners, a createPatch
\* call whose member triangles are free and have the compartments
\* (icomp, ocomp) in either order returns, and then for every member the
\* tet of slot 0 is owned by icomp and slot 1 maps to ocomp; the slots of a
\* member in swapped order were exchanged, those of the others are as before.
C12_SlotsInnerOuter ==
    (pc = "built" /\ DistinctCorners) =>
        \A c \in AcceptedCalls :
            LET chk == Patch_Check(c[1], c[2], c[3])
                rt == Patch_Swap(tri_tet, chk.fliplist)
            IN  /\ chk.res = "ok"
                /\ \A i \in c[1] :
                       /\ CompOfSlot(rt[i][0]) = c[2]
                       /\ CompOfSlot(rt[i][1]) = c[3]
                       /\ Classify(i, c[2], c[3]) = "swap"
                              => rt[i][0] = tri_tet[i][1] /\ rt[i][1] = tri_tet[i][0]
                       /\ Classify(i, c[2], c[3]) = "keep" => rt[i] = tri_tet[i]

\* the sign of dot(tetBarycenter - triBarycenter, normal) of each member
\* before the fix-up: every choice of below zero, zero and above zero
DotSigns(triset) == [triset -> {0 - 1, 0, 1}]

\* C13: on a mesh of tetrahedra with four different corners, the
\* orientation fix-up of Patch.__init__ rewrites a member triangle
\* exactly when its dot product was >= 0, leaves it untouched when it was
\* < 0, and leaves every member with a dot product < 0 (a rewritten
\* triangle has its normal negated, so its dot product changes sign).
C13_OrientedOutward ==
    (pc = "built" /\ DistinctCorners) =>
        \A triset \in MemberSets : \A sgn \in DotSigns(triset) :
            LET tr == Patch_Orient(tris, {i \in triset : sgn[i] < 0})
                rewritten(i) == tr[i] # tris[i]
                after(i) == IF rewritten(i) THEN 0 - sgn[i] ELSE sgn[i]
            IN  \A i \in triset :
                    /\ rewritten(i) <=> sgn[i] >= 0
                    /\ after(i) < 0

PatchConflictMsgs ==
    {"Cannot add triangle to patch.", "Triangle cannot belong to this patch."}

TotalVol == SumOver(Tet_Vols, TetIds)

\* the sum of the volumes of all Comps
CompVolSum == SumOver([i \in DOMAIN comps |-> comps[i].vol], DOMAIN comps)

\* C15: the volume of a Comp is the sum of the volumes of its member tets,
\* each counted once; the volumes of all Comps add up to at most the total
\* volume of the mesh, and to exactly that when every tet is in a Comp.
C15_VolumeAdditive ==
    pc = "built" =>
        /\ \A i \in DOMAIN comps : comps[i].vol = SumOver(Tet_Vols, comps[i].tets)
        /\ CompVolSum <= TotalVol
        /\ UNION {comps[i].tets : i \in DOMAIN comps} = TetIds => CompVolSum = TotalVol

\* two Comps that cover a mesh of two or more tets with volume
C15_Witness ==
    /\ pc = "built"
    /\ Size(comps) = 2
    /\ Size(tets) >= 2
    /\ UNION {comps[i].tets : i \in DOMAIN comps} = TetIds
    /\ \A t \in TetIds : Tet_Vols[t] > 0

\* C16: on a mesh of tetrahedra with four different corners, a createPatch
\* call whose member triangles are free and have the compartments
\* (icomp, ocomp) in either order returns with the area of the Patch equal
\* to the sum of the stored areas of its members, each counted once, and
\* the areas of the members are the same after the orientation fix-up.
C16_AreaAdditive ==
    (pc = "built" /\ DistinctCorners) =>
        \A c \in AcceptedCalls :
            /\ Patch_Check(c[1], c[2], c[3]).res = "ok"
            /\ Patch_Area(c[1]) = SumOver(Tri_Areas(tris), c[1])
            /\ \A neg \in SUBSET c[1] :
                   SumOver(Tri_Areas(Patch_Orient(tris, neg)), c[1]) = Patch_Area(c[1])

InvalidTetMsg == "Invalid tetrahedron index specified."

InvalidTriMsg == "Invalid triangle index specified."

\* the index sets that are empty or hold an index outside 0 .. n-1
BadIndexSets(n) == {S \in IndexSets(n) : S = {} \/ \E x \in S : x < 0 \/ x >= n}

\* C17: a createCompartment or createPatch call with an empty index set, or
\* with an index out of range, is refused with the invalid-index error, and
\* the refusal changes no annotation, neighbour slot or triangle and creates
\* no Comp and no Patch.
C17_InvalidInputRejected ==
    [][pc = "built" =>
         /\ (last'.op = "Comp" /\ last'.tets \in BadIndexSets(Size(tets)))
                => /\ last'.res = InvalidTetMsg
                   /\ UNCHANGED <<tet_comps, comps, tri_tet, tris, tri_patches, patches>>
         /\ \A triset \in BadIndexSets(Size(tris)),
               icomp \in CompRefs, ocomp \in CompRefs \cup {NoneVal} :
                Patch_Check(triset, icomp, ocomp).res = InvalidTriMsg
         /\ (last'.op = "Patch" /\ last'.res \in {InvalidTriMsg, "ValueError"})
                => UNCHANGED <<tet_comps, comps, tri_tet, tris, tri_patches, patches>>]_vars

\* C18: on a mesh of tetrahedra with four different corners, a createPatch
\* call whose member triangles are free and have the compartments
\* (icomp, ocomp) in either order returns, so that its triangles are owned;
\* and no step changes the corner order, the neighbour slots, the index or
\* the owner of a triangle that a Patch owns.
C18_ClaimedTriangleFrozen ==
    [][(pc = "built" /\ DistinctCorners) =>
         /\ \A c \in AcceptedCalls : Patch_Check(c[1], c[2], c[3]).res = "ok"
         /\ \A i \in TriIds :
                PatchOwned(i)
                    => /\ i \in DOMAIN tris' /\ tris'[i] = tris[i]
                       /\ tri_tet'[i] = tri_tet[i]
                       /\ i \in DOMAIN tri_patches' /\ tri_patches'[i] = tri_patches[i]
                       /\ \A j \in DOMAIN patches :
                              /\ j \in DOMAIN patches'
                              /\ i \in patches[j].tris <=> i \in patches'[j].tris]_vars

\* C19: on a mesh of tetrahedra with four different corners, the
\* per-triangle patch table has one entry for each triangle of the buffer,
\* the entry of a triangle is none until a Patch owns it and is that Patch
\* afterwards, and the ownership test of Patch.__init__ passes for every
\* triangle that no Patch owns.
C19_PatchTablePerTriangle ==
    (pc = "built" /\ DistinctCorners) =>
        /\ DOMAIN tri_patches = DOMAIN tris
        /\ \A i \in TriIds \cap DOMAIN tri_patches :
               /\ ~ PatchOwned(i) => tri_patches[i] = NoneVal
               /\ PatchOwned(i)
                      => \E j \in DOMAIN patches :
                             i \in patches[j].tris /\ tri_patches[i] = PatchRef(j)
        /\ \A i \in TriIds :
               ~ PatchOwned(i) => Patch_OwnerLoop(AscList({i}), 0) = "ok"

====
